---- MODULE Spec2Model ----
(***************************************************************************)
(* Model of yival/schemas/experiment_config.py: the WrapperVariation       *)
(* instantiation contract, the module-level CLASS_REGISTRY, and the        *)
(* ExperimentConfig / Experiment value objects.                            *)
(*                                                                         *)
(* Python values are records of one shape (t is the Python type name), so  *)
(* that any two of them can be compared.  Python strings are sequences of  *)
(* one-character strings, so that parsing and formatting are computed      *)
(* character by character as the builtins do.                              *)
(***************************************************************************)
EXTENDS Integers, Sequences, FiniteSets, TLC

VARIABLES CLASS_REGISTRY, variations, last, evaluated, mapping, config, experiment

vars == <<CLASS_REGISTRY, variations, last, evaluated, mapping, config, experiment>>

\* ------------------------------------------------------------------ bounds
\* Live WrapperVariation objects the model tracks.
MaxVariations == 1
\* Length of ExperimentConfig.variations and of combinations_to_run.
MaxConfigLen == 2
\* Length of Experiment.results.
MaxResults == 2

\* ---------------------------------------------------------- Python values
Blank == [t |-> "NoneType", s |-> <<>>, n |-> 0, d |-> 1, m |-> <<>>, c |-> ""]
None == Blank
StrVal(chars) == [Blank EXCEPT !.t = "str", !.s = chars]
IntVal(i) == [Blank EXCEPT !.t = "int", !.n = i]
BoolVal(b) == [Blank EXCEPT !.t = "bool", !.n = IF b THEN 1 ELSE 0]
FloatVal(num, den) == [Blank EXCEPT !.t = "float", !.n = num, !.d = den]
\* A dict with one-character string keys and int values, in insertion order.
DictVal(items) == [Blank EXCEPT !.t = "dict", !.m = items]
\* An instance of a registered class, with its attributes.
ObjVal(cls, attrs) == [Blank EXCEPT !.t = "object", !.c = cls, !.m = attrs]

True == BoolVal(TRUE)
False == BoolVal(FALSE)

\* The outcome of a call: a returned value, or a raised exception.  fmt is the
\* fixed part of the exception's message and arg the text interpolated into it.
Ok(v) == [ok |-> TRUE, val |-> v, kind |-> "", fmt |-> "", arg |-> <<>>]
Raise(kind, fmt, arg) == [ok |-> FALSE, val |-> None, kind |-> kind, fmt |-> fmt, arg |-> arg]

\* ------------------------------------------------------- text of the model
T_str == <<"s", "t", "r">>
T_int == <<"i", "n", "t">>
T_float == <<"f", "l", "o", "a", "t">>
T_bool == <<"b", "o", "o", "l">>
T_ClassA == <<"C", "l", "a", "s", "s", "A">>
T_Unregistered == <<"U", "n", "r", "e", "g">>

DigitChars == <<"0", "1", "2", "3", "4", "5", "6", "7", "8", "9">>
Digits == {DigitChars[i] : i \in DOMAIN DigitChars}
DigitOf(ch) == (CHOOSE i \in DOMAIN DigitChars : DigitChars[i] = ch) - 1

\* ------------------------------------------------------------- str.strip()
RECURSIVE LStrip(_)
LStrip(s) == IF s # <<>> /\ Head(s) = " " THEN LStrip(Tail(s)) ELSE s

RECURSIVE RStrip(_)
RStrip(s) == IF s # <<>> /\ s[Len(s)] = " " THEN RStrip(SubSeq(s, 1, Len(s) - 1)) ELSE s

Strip(s) == RStrip(LStrip(s))

\* --------------------------------------------------------- int(<str>), base 10
HasSign(s) == s # <<>> /\ Head(s) \in {"+", "-"}
Unsigned(s) == IF HasSign(s) THEN Tail(s) ELSE s
SignOf(s) == IF s # <<>> /\ Head(s) = "-" THEN -1 ELSE 1

\* Digits, with single underscores allowed between them.
IsDigitRun(b) ==
    /\ b # <<>>
    /\ \A i \in DOMAIN b : b[i] \in Digits \cup {"_"}
    /\ b[1] \in Digits
    /\ b[Len(b)] \in Digits
    /\ \A i \in 1..(Len(b) - 1) : ~(b[i] = "_" /\ b[i + 1] = "_")

RECURSIVE DigitRunValue(_, _)
DigitRunValue(b, acc) ==
    IF b = <<>> THEN acc
    ELSE IF Head(b) = "_" THEN DigitRunValue(Tail(b), acc)
    ELSE DigitRunValue(Tail(b), 10 * acc + DigitOf(Head(b)))

RECURSIVE CountDigits(_)
CountDigits(b) ==
    IF b = <<>> THEN 0
    ELSE (IF Head(b) \in Digits THEN 1 ELSE 0) + CountDigits(Tail(b))

IntLiteralOk(s) == IsDigitRun(Unsigned(Strip(s)))
IntLiteralValue(s) == SignOf(Strip(s)) * DigitRunValue(Unsigned(Strip(s)), 0)

\* ------------------------------------------------------------- float(<str>)
\* Decimal forms: digits, digits.digits, digits. and .digits, with a sign.
\* (Exponents, inf and nan use characters no literal of the model has.)
DotAt(b) == IF \E i \in DOMAIN b : b[i] = "." THEN CHOOSE i \in DOMAIN b : b[i] = "." /\ \A j \in 1..(i - 1) : b[j] # "." ELSE Len(b) + 1
IntPart(b) == SubSeq(b, 1, DotAt(b) - 1)
FracPart(b) == SubSeq(b, DotAt(b) + 1, Len(b))

FloatBodyOk(b) ==
    /\ IntPart(b) = <<>> \/ IsDigitRun(IntPart(b))
    /\ FracPart(b) = <<>> \/ IsDigitRun(FracPart(b))
    /\ ~(IntPart(b) = <<>> /\ FracPart(b) = <<>>)

RECURSIVE Pow10(_)
Pow10(k) == IF k = 0 THEN 1 ELSE 10 * Pow10(k - 1)

\* The same number with no factor of ten common to numerator and denominator.
RECURSIVE Reduce10(_, _)
Reduce10(num, den) ==
    IF den > 1 /\ num % 10 = 0 THEN Reduce10(num \div 10, den \div 10)
    ELSE FloatVal(num, den)

FloatLiteralOk(s) == FloatBodyOk(Unsigned(Strip(s)))
FloatLiteralValue(s) ==
    LET b == Unsigned(Strip(s))
        k == CountDigits(FracPart(b))
        mag == DigitRunValue(IntPart(b), 0) * Pow10(k) + DigitRunValue(FracPart(b), 0)
    IN  Reduce10(SignOf(Strip(s)) * mag, Pow10(k))

\* -------------------------------------------------- str(<int>), repr(<dict>)
RECURSIVE NatChars(_)
NatChars(i) == IF i < 10 THEN <<DigitChars[i + 1]>> ELSE NatChars(i \div 10) \o <<DigitChars[(i % 10) + 1]>>

IntChars(i) == IF i < 0 THEN <<"-">> \o NatChars(-i) ELSE NatChars(i)

RECURSIVE ItemsChars(_)
ItemsChars(items) ==
    IF items = <<>> THEN <<>>
    ELSE <<"'", Head(items)[1], "'", ":", " ">> \o IntChars(Head(items)[2])
         \o (IF Tail(items) = <<>> THEN <<>> ELSE <<",", " ">> \o ItemsChars(Tail(items)))

DictChars(items) == <<"{">> \o ItemsChars(items) \o <<"}">>

ReprChars(v) == <<"'">> \o v.s \o <<"'">>

\* ------------------------------------------------------ the four builtins
T_NoneType == <<"N", "o", "n", "e", "T", "y", "p", "e">>
T_dict == <<"d", "i", "c", "t">>
TypeChars(v) ==
    CASE v.t = "NoneType" -> T_NoneType
      [] v.t = "dict" -> T_dict
      [] v.t = "str" -> T_str
      [] v.t = "int" -> T_int
      [] v.t = "bool" -> T_bool

\* str(v)
PyStr(v) ==
    CASE v.t = "str" -> Ok(v)
      [] v.t = "int" -> Ok(StrVal(IntChars(v.n)))
      [] v.t = "bool" -> Ok(StrVal(IF v.n = 1 THEN <<"T", "r", "u", "e">> ELSE <<"F", "a", "l", "s", "e">>))
      [] v.t = "NoneType" -> Ok(StrVal(<<"N", "o", "n", "e">>))
      [] v.t = "dict" -> Ok(StrVal(DictChars(v.m)))

\* int(v)
PyInt(v) ==
    CASE v.t = "str" ->
            IF IntLiteralOk(v.s) THEN Ok(IntVal(IntLiteralValue(v.s)))
            ELSE Raise("ValueError", "invalid literal for int() with base 10: ", ReprChars(v))
      [] v.t \in {"int", "bool"} -> Ok(IntVal(v.n))
      [] v.t \in {"NoneType", "dict"} ->
            Raise("TypeError", "int() argument must be a string, a bytes-like object or a real number, not ", TypeChars(v))

\* float(v)
PyFloat(v) ==
    CASE v.t = "str" ->
            IF FloatLiteralOk(v.s) THEN Ok(FloatLiteralValue(v.s))
            ELSE Raise("ValueError", "could not convert string to float: ", ReprChars(v))
      [] v.t \in {"int", "bool"} -> Ok(FloatVal(v.n, 1))
      [] v.t \in {"NoneType", "dict"} ->
            Raise("TypeError", "float() argument must be a string or a real number, not ", TypeChars(v))

\* bool(v): the truth value of v; no text is parsed.
PyBool(v) ==
    CASE v.t = "str" -> Ok(BoolVal(v.s # <<>>))
      [] v.t \in {"int", "bool"} -> Ok(BoolVal(v.n # 0))
      [] v.t = "NoneType" -> Ok(False)
      [] v.t = "dict" -> Ok(BoolVal(v.m # <<>>))

PRIMITIVE_TAGS == {T_str, T_int, T_float, T_bool}

\* eval(code) in the module's namespace: the four names are the builtin types;
\* any other text is run as an expression, whatever it says.
Eval(code) ==
    CASE code = T_str -> "str"
      [] code = T_int -> "int"
      [] code = T_float -> "float"
      [] code = T_bool -> "bool"
      [] OTHER -> "arbitrary code"

\* f(v) for what eval returned.
CallEvaluated(f, v) ==
    CASE f = "str" -> PyStr(v)
      [] f = "int" -> PyInt(v)
      [] f = "float" -> PyFloat(v)
      [] f = "bool" -> PyBool(v)
      [] OTHER -> Raise("TypeError", "object is not callable", <<>>)

\* ------------------------------------------------- registered constructors
\* The classes a host application registers.  ClassA takes a keyword a and an
\* optional keyword b (default 0); Strict rejects every argument list with an
\* error of its own.
Ctors == {"ClassA", "Strict"}

Keys(items) == {items[i][1] : i \in DOMAIN items}
ItemOf(items, k) == items[CHOOSE i \in DOMAIN items : items[i][1] = k][2]

CallClass(cls, items) ==
    IF cls = "ClassA"
    THEN IF \E k \in Keys(items) : k \notin {"a", "b"}
         THEN Raise("TypeError", "__init__() got an unexpected keyword argument ",
                    <<CHOOSE k \in Keys(items) : k \notin {"a", "b"}>>)
         ELSE IF "a" \notin Keys(items)
         THEN Raise("TypeError", "__init__() missing 1 required positional argument: ", <<"a">>)
         ELSE Ok(ObjVal("ClassA", << <<"a", ItemOf(items, "a")>>,
                                     <<"b", IF "b" \in Keys(items) THEN ItemOf(items, "b") ELSE 0>> >>))
    ELSE Raise("UnknownTypeError", "rejected arguments", <<>>)

\* cls(**value)
CallKeywords(cls, value) ==
    IF value.t # "dict"
    THEN Raise("TypeError", "argument after ** must be a mapping, not ", TypeChars(value))
    ELSE CallClass(cls, value.m)

\* ------------------------------------------- WrapperVariation.instantiate
\* The result of the call and what it did: the strings it evaluated as code
\* and the registry it leaves.
Effect(out, evald, registry) == [out |-> out, evaluated |-> evald, registry |-> registry]

\* instantiate with the type name evaluated before it is checked.
instantiate_eval_unchecked(value_type, value, registry) ==
    IF value_type \in PRIMITIVE_TAGS
    THEN Effect(CallEvaluated(Eval(value_type), value), {value_type}, registry)
    ELSE IF value_type \in DOMAIN registry
    THEN Effect(CallKeywords(registry[value_type], value), {value_type}, registry)
    ELSE Effect(Raise("ValueError", "Unsupported value_type: ", value_type), {value_type}, registry)

\* instantiate with the raw value returned for a value_type it does not know.
instantiate_fallback(value_type, value, registry) ==
    IF value_type \in PRIMITIVE_TAGS
    THEN Effect(CallEvaluated(Eval(value_type), value), {value_type}, registry)
    ELSE IF value_type \in DOMAIN registry
    THEN Effect(CallKeywords(registry[value_type], value), {}, registry)
    ELSE Effect(Ok(value), {}, registry)

\* instantiate with a constructor's error reported as a ValueError.
instantiate_wrapped(value_type, value, registry) ==
    IF value_type \in PRIMITIVE_TAGS
    THEN Effect(CallEvaluated(Eval(value_type), value), {value_type}, registry)
    ELSE IF value_type \in DOMAIN registry
    THEN LET out == CallKeywords(registry[value_type], value)
         IN  Effect(IF out.ok THEN out ELSE Raise("ValueError", "Unsupported value_type: ", value_type),
                    {}, registry)
    ELSE Effect(Raise("ValueError", "Unsupported value_type: ", value_type), {}, registry)

instantiate(value_type, value, registry) ==
    IF value_type \in PRIMITIVE_TAGS
    THEN Effect(CallEvaluated(Eval(value_type), value), {value_type}, registry)
    ELSE IF value_type \in DOMAIN registry
    THEN Effect(CallKeywords(registry[value_type], value), {}, registry)
    ELSE Effect(Raise("ValueError", "Unsupported value_type: ", value_type), {}, registry)

\* ------------------------------------------------------- WrapperVariation
WrapperVariation(value_type, value, instantiated_value, variation_id) ==
    [value_type |-> value_type, value |-> value,
     instantiated_value |-> instantiated_value, variation_id |-> variation_id]

NoObject == WrapperVariation(<<>>, None, None, None)

\* WrapperVariation(value_type, value, variation_id): the generated __init__
\* stores the three arguments and __post_init__ stores instantiate()'s result.
\* obj is the object the caller gets, NoObject when the constructor raised.
New(value_type, value, variation_id, registry) ==
    LET e == instantiate(value_type, value, registry)
    IN  [e |-> e,
         obj |-> IF e.out.ok
                 THEN WrapperVariation(value_type, value, e.out.val, variation_id)
                 ELSE NoObject]

\* dataclasses.asdict on a field's value: an instance of a dataclass (ClassA is
\* one) becomes the dict of its fields, anything else is deep-copied.
AsdictInner(v) == IF v.t = "object" /\ v.c = "ClassA" THEN DictVal(v.m) ELSE v

asdict(self) ==
    [value_type |-> self.value_type,
     value |-> AsdictInner(self.value),
     instantiated_value |-> AsdictInner(self.instantiated_value),
     variation_id |-> AsdictInner(self.variation_id)]

NoMapping == [present |-> FALSE, of |-> 0, d |-> asdict(NoObject)]

\* Loading a variation back from its mapping: the declared fields are passed to
\* the constructor, instantiated_value is not read.
FromMapping(d, registry) == New(d.value_type, d.value, d.variation_id, registry)

\* ------------------------------------------------------------------ inputs
S_42 == StrVal(<<"4", "2">>)
S_minus7 == StrVal(<<"-", "7">>)
S_1_5 == StrVal(<<"1", ".", "5">>)
S_true == StrVal(<<"t", "r", "u", "e">>)
S_false == StrVal(<<"f", "a", "l", "s", "e">>)
S_not_a_number == StrVal(<<"n", "o", "t", "-", "a", "-", "n", "u", "m", "b", "e", "r">>)
D_a == DictVal(<< <<"a", 1>> >>)
D_z == DictVal(<< <<"z", 1>> >>)

TypeNames == PRIMITIVE_TAGS \cup {T_ClassA, T_Unregistered}
Values == {S_42, S_1_5, S_true, S_false, S_not_a_number, D_a, D_z}
VariationIds == {None, StrVal(<<"v", "1">>)}
\* What the host application registers, and under which names.
Registrations == {<<T_ClassA, "ClassA">>, <<T_ClassA, "Strict">>, <<T_int, "Strict">>}
RegisterNames == {r[1] : r \in Registrations}
\* What direct assignment to a field stores.
AssignTypes == {T_Unregistered}
AssignValues == {S_minus7}

\* ------------------------------------------------------------------- state
\* last: the most recent operation, its arguments, its outcome, the object it
\* produced and the registry it started from.
Last(op, value_type, value, out, obj, reg) ==
    [op |-> op, value_type |-> value_type, value |-> value, out |-> out, obj |-> obj, reg |-> reg]

Idle(op) == Last(op, <<>>, None, Ok(None), NoObject, << >>)

\* ---------------------------------- WrapperConfig, ExperimentConfig, Experiment
WrapperConfig(name, wrapper_variations) == [name |-> name, variations |-> wrapper_variations]

\* combinations_to_run is Optional: present is FALSE for None.
Combinations(items) == [present |-> TRUE, items |-> items]
NoCombinations == [present |-> FALSE, items |-> <<>>]

\* ExperimentConfig(description, variations, dataset, combinations_to_run=...):
\* the generated __init__ stores its arguments and the declared defaults.
ExperimentConfig(description, wrapper_configs, dataset, combinations_to_run) ==
    [description |-> description,
     variations |-> wrapper_configs,
     dataset |-> dataset,
     wrapper_configs |-> None,
     combinations_to_run |-> combinations_to_run,
     evaluators |-> None,
     output |-> None,
     human_rating_configs |-> <<>>,
     existing_experiment_path |-> None,
     version |-> None,
     output_parser |-> None,
     metadata |-> <<>>]

NoConfig == [exists |-> FALSE, obj |-> ExperimentConfig("", <<>>, "", NoCombinations)]

Metric(name, value) == [name |-> name, value |-> value, description |-> None]

\* An output of the evaluator of that name.
EvaluatorOutput(name) == [name |-> name]

ExperimentResult(combination, raw_output, evaluator_outputs) ==
    [input_data |-> "example",
     combination |-> combination,
     raw_output |-> raw_output,
     latency |-> FloatVal(15, 10),
     token_usage |-> 42,
     evaluator_outputs |-> evaluator_outputs,
     human_rating |-> None,
     intermediate_logs |-> <<>>]

Experiment(results, aggregated_metrics) ==
    [results |-> results, aggregated_metrics |-> aggregated_metrics]

NoExperiment == [exists |-> FALSE, obj |-> Experiment(<<>>, << >>)]

Init ==
    /\ CLASS_REGISTRY = << >>
    /\ variations = <<>>
    /\ last = Idle("import")
    /\ evaluated = {}
    /\ mapping = NoMapping
    /\ config = NoConfig
    /\ experiment = NoExperiment

\* ---------------------------------------------------------------- actions
\* CLASS_REGISTRY[name] = cls, by the host application.
Register(name, cls) ==
    /\ CLASS_REGISTRY' = [k \in DOMAIN CLASS_REGISTRY \cup {name} |-> IF k = name THEN cls ELSE CLASS_REGISTRY[k]]
    /\ last' = Idle("register")
    /\ evaluated' = {}
    /\ mapping' = NoMapping
    /\ UNCHANGED <<variations, config, experiment>>

\* del CLASS_REGISTRY[name]
Unregister(name) ==
    /\ name \in DOMAIN CLASS_REGISTRY
    /\ CLASS_REGISTRY' = [k \in DOMAIN CLASS_REGISTRY \ {name} |-> CLASS_REGISTRY[k]]
    /\ last' = Idle("unregister")
    /\ evaluated' = {}
    /\ mapping' = NoMapping
    /\ UNCHANGED <<variations, config, experiment>>

\* WrapperVariation(value_type=..., value=..., variation_id=...)
Construct(value_type, value, variation_id) ==
    /\ Len(variations) < MaxVariations
    /\ LET new == New(value_type, value, variation_id, CLASS_REGISTRY)
       IN  /\ variations' = IF new.e.out.ok THEN Append(variations, new.obj) ELSE variations
           /\ last' = Last("construct", value_type, value, new.e.out, new.obj, CLASS_REGISTRY)
           /\ evaluated' = new.e.evaluated
           /\ CLASS_REGISTRY' = new.e.registry
    /\ mapping' = NoMapping
    /\ UNCHANGED <<config, experiment>>

\* variations[i].instantiate(), the result dropped by nobody: the method is public.
CallInstantiate(i) ==
    /\ i \in DOMAIN variations
    /\ LET self == variations[i]
           e == instantiate(self.value_type, self.value, CLASS_REGISTRY)
       IN  /\ last' = Last("instantiate", self.value_type, self.value, e.out, NoObject, CLASS_REGISTRY)
           /\ evaluated' = e.evaluated
           /\ CLASS_REGISTRY' = e.registry
    /\ mapping' = NoMapping
    /\ UNCHANGED <<variations, config, experiment>>

\* variations[i].value_type = value_type
SetValueType(i, value_type) ==
    /\ i \in DOMAIN variations
    /\ variations' = [variations EXCEPT ![i].value_type = value_type]
    /\ last' = Idle("setattr")
    /\ evaluated' = {}
    /\ mapping' = NoMapping
    /\ UNCHANGED <<CLASS_REGISTRY, config, experiment>>

\* variations[i].value = value
SetValue(i, value) ==
    /\ i \in DOMAIN variations
    /\ variations' = [variations EXCEPT ![i].value = value]
    /\ last' = Idle("setattr")
    /\ evaluated' = {}
    /\ mapping' = NoMapping
    /\ UNCHANGED <<CLASS_REGISTRY, config, experiment>>

\* variations[i].asdict()
Asdict(i) ==
    /\ i \in DOMAIN variations
    /\ mapping' = [present |-> TRUE, of |-> i, d |-> asdict(variations[i])]
    /\ last' = Last("asdict", variations[i].value_type, variations[i].value, Ok(None), variations[i], CLASS_REGISTRY)
    /\ evaluated' = {}
    /\ UNCHANGED <<CLASS_REGISTRY, variations, config, experiment>>

\* The mapping asdict just returned is loaded back.  last.obj becomes the
\* object rebuilt; it is not added to the tracked objects.
Reconstruct ==
    /\ mapping.present
    /\ LET new == FromMapping(mapping.d, CLASS_REGISTRY)
       IN  /\ last' = Last("reconstruct", mapping.d.value_type, mapping.d.value, new.e.out, new.obj, CLASS_REGISTRY)
           /\ evaluated' = new.e.evaluated
           /\ CLASS_REGISTRY' = new.e.registry
    /\ UNCHANGED <<variations, mapping, config, experiment>>

Next ==
    \/ \E r \in Registrations : Register(r[1], r[2])
    \/ \E name \in RegisterNames : Unregister(name)
    \/ \E value_type \in TypeNames, value \in Values, variation_id \in VariationIds :
           Construct(value_type, value, variation_id)
    \/ \E i \in 1..MaxVariations : CallInstantiate(i)
    \/ \E i \in 1..MaxVariations, value_type \in AssignTypes : SetValueType(i, value_type)
    \/ \E i \in 1..MaxVariations, value \in AssignValues : SetValue(i, value)
    \/ \E i \in 1..MaxVariations : Asdict(i)
    \/ Reconstruct

Spec == Init /\ [][Next]_vars

\* --------------------------------------------------------- ExperimentConfig
SeqsUpTo(S, n) == UNION {[1..k -> S] : k \in 0..n}

WrapperConfigs ==
    {WrapperConfig("prompt", <<New(T_str, S_true, StrVal(<<"v", "1">>), << >>).obj>>),
     WrapperConfig("model", <<New(T_int, S_42, StrVal(<<"v", "1">>), << >>).obj>>)}
\* (group_name, variation) pairs; no WrapperConfig of the model is named "ghost".
CombinationPairs == {<<"prompt", "v1">>, <<"model", "v1">>, <<"ghost", "v1">>}
Descriptions == {"baseline", "ablation"}

VariationLists == SeqsUpTo(WrapperConfigs, MaxConfigLen)
CombinationLists == {NoCombinations} \cup {Combinations(c) : c \in SeqsUpTo(CombinationPairs, MaxConfigLen)}

\* ExperimentConfig(description=..., variations=..., dataset=..., combinations_to_run=...)
ConstructConfig(description, wrapper_configs, combinations_to_run) ==
    /\ config' = [exists |-> TRUE,
                  obj |-> ExperimentConfig(description, wrapper_configs, "dataset", combinations_to_run)]
    /\ UNCHANGED <<CLASS_REGISTRY, variations, last, evaluated, mapping, experiment>>

\* config.variations = wrapper_configs
SetVariations(wrapper_configs) ==
    /\ config.exists
    /\ config' = [config EXCEPT !.obj.variations = wrapper_configs]
    /\ UNCHANGED <<CLASS_REGISTRY, variations, last, evaluated, mapping, experiment>>

\* config.combinations_to_run = combinations_to_run
SetCombinationsToRun(combinations_to_run) ==
    /\ config.exists
    /\ config' = [config EXCEPT !.obj.combinations_to_run = combinations_to_run]
    /\ UNCHANGED <<CLASS_REGISTRY, variations, last, evaluated, mapping, experiment>>

NextConfig ==
    \/ \E description \in Descriptions, wrapper_configs \in VariationLists,
          combinations_to_run \in CombinationLists :
           ConstructConfig(description, wrapper_configs, combinations_to_run)
    \/ \E wrapper_configs \in VariationLists : SetVariations(wrapper_configs)
    \/ \E combinations_to_run \in CombinationLists : SetCombinationsToRun(combinations_to_run)

SpecConfig == Init /\ [][NextConfig]_vars

\* --------------------------------------------------------------- Experiment
EvaluatorNames == {"accuracy", "bleu"}
MetricValues == {FloatVal(5, 10), FloatVal(1, 1)}

\* One result per set of evaluators that scored it.
Results ==
    {ExperimentResult(<< >>, "output", <<>>),
     ExperimentResult(<< >>, "output", <<EvaluatorOutput("accuracy")>>),
     ExperimentResult(<< >>, "output", <<EvaluatorOutput("bleu")>>),
     ExperimentResult(<< >>, "output", <<EvaluatorOutput("accuracy"), EvaluatorOutput("bleu")>>)}

ResultLists == SeqsUpTo(Results, MaxResults)

\* evaluator name -> metric name -> Metric
AggregatedMetrics ==
    UNION {[names -> {[n \in {"mean"} |-> Metric("mean", v)] : v \in MetricValues}] :
           names \in SUBSET EvaluatorNames}

\* Experiment(results=..., aggregated_metrics=...)
ConstructExperiment(results, aggregated_metrics) ==
    /\ experiment' = [exists |-> TRUE, obj |-> Experiment(results, aggregated_metrics)]
    /\ UNCHANGED <<CLASS_REGISTRY, variations, last, evaluated, mapping, config>>

\* experiment.results.append(result)
AppendResult(result) ==
    /\ experiment.exists
    /\ Len(experiment.obj.results) < MaxResults
    /\ experiment' = [experiment EXCEPT !.obj.results = Append(@, result)]
    /\ UNCHANGED <<CLASS_REGISTRY, variations, last, evaluated, mapping, config>>

\* experiment.results = results
SetResults(results) ==
    /\ experiment.exists
    /\ experiment' = [experiment EXCEPT !.obj.results = results]
    /\ UNCHANGED <<CLASS_REGISTRY, variations, last, evaluated, mapping, config>>

\* experiment.aggregated_metrics = aggregated_metrics
SetAggregatedMetrics(aggregated_metrics) ==
    /\ experiment.exists
    /\ experiment' = [experiment EXCEPT !.obj.aggregated_metrics = aggregated_metrics]
    /\ UNCHANGED <<CLASS_REGISTRY, variations, last, evaluated, mapping, config>>

NextExperiment ==
    \/ \E results \in ResultLists, aggregated_metrics \in AggregatedMetrics :
           ConstructExperiment(results, aggregated_metrics)
    \/ \E result \in Results : AppendResult(result)
    \/ \E results \in ResultLists : SetResults(results)
    \/ \E aggregated_metrics \in AggregatedMetrics : SetAggregatedMetrics(aggregated_metrics)

SpecExperiment == Init /\ [][NextExperiment]_vars

\* ------------------------------------------------------------------ claims
Instantiating == {"construct", "instantiate", "reconstruct"}

\* The literals of the model that are valid for each primitive tag, with the
\* value each denotes.
NaturalParses ==
    {<<T_str, v, v>> : v \in {x \in Values \cup AssignValues : x.t = "str"}}
    \cup {<<T_int, S_42, IntVal(42)>>, <<T_int, S_minus7, IntVal(-7)>>,
          <<T_float, S_42, FloatVal(42, 1)>>, <<T_float, S_minus7, FloatVal(-7, 1)>>,
          <<T_float, S_1_5, FloatVal(15, 10)>>,
          <<T_bool, S_true, True>>, <<T_bool, S_false, False>>}

ValidLiteral(value_type, value) == \E p \in NaturalParses : p[1] = value_type /\ p[2] = value

\* C1: a WrapperVariation built from a primitive tag and a valid literal of it
\* holds the value the literal denotes, of the tag's type.
C1_NaturalParse ==
    \A p \in NaturalParses :
        (last.op = "construct" /\ last.value_type = p[1] /\ last.value = p[2])
            => (last.out.ok /\ last.out.val = p[3] /\ last.obj.instantiated_value = p[3])

\* C2: every WrapperVariation's instantiated_value is what instantiating its
\* current (value_type, value) gives, whatever was done since it was built.
C2_Consistent ==
    \A i \in DOMAIN variations :
        LET e == instantiate(variations[i].value_type, variations[i].value, CLASS_REGISTRY)
        IN  e.out.ok /\ e.out.val = variations[i].instantiated_value

UnsupportedType(value_type, registry) ==
    value_type \notin PRIMITIVE_TAGS /\ value_type \notin DOMAIN registry

Unparsable(value_type, value) ==
    /\ value_type \in {T_int, T_float, T_bool}
    /\ value = S_not_a_number

\* C4: constructing with a primitive tag and a value that does not parse as it
\* fails with a TypeCoercionError, an error of another kind than the one an
\* unsupported value_type gets.
C4_TypeCoercionError ==
    (last.op = "construct" /\ Unparsable(last.value_type, last.value))
        => /\ ~last.out.ok
           /\ last.out.kind = "TypeCoercionError"
           /\ last.out.kind # instantiate(T_Unregistered, last.value, << >>).out.kind
           /\ last.obj = NoObject

\* C5: with a name that is no primitive tag registered, instantiating a mapping
\* under that name gives what the registered constructor gives for the
\* mapping's entries as keywords, its error included, and no instantiation
\* changes the registry.
C5_RegisteredConstructor ==
    /\ (last.op \in Instantiating /\ last.value_type \notin PRIMITIVE_TAGS
            /\ last.value_type \in DOMAIN last.reg /\ last.value.t = "dict")
        => last.out = CallClass(last.reg[last.value_type], last.value.m)
    /\ last.op \in Instantiating => CLASS_REGISTRY = last.reg

C5_Witness ==
    /\ last.op = "construct"
    /\ last.value_type = T_ClassA
    /\ last.value = D_a
    /\ T_ClassA \in DOMAIN last.reg
    /\ last.reg[T_ClassA] = "ClassA"
    /\ last.obj.instantiated_value = ObjVal("ClassA", << <<"a", 1>>, <<"b", 0>> >>)

\* C6: a WrapperVariation rebuilt from its asdict mapping is built without
\* error and equals the original on value_type, value and variation_id.  (The
\* mapping was taken from variations[mapping.of], unchanged since.)
C6_RoundTrip ==
    last.op = "reconstruct"
        => /\ last.out.ok
           /\ last.obj.value_type = variations[mapping.of].value_type
           /\ last.obj.value = variations[mapping.of].value
           /\ last.obj.variation_id = variations[mapping.of].variation_id

\* C7: whatever instantiate evaluates as code is its value_type, and only when
\* that is one of the four primitive tags; the value is never evaluated.
C7_OnlyTagsEvaluated ==
    /\ evaluated \subseteq PRIMITIVE_TAGS
    /\ evaluated \subseteq {last.value_type}
    /\ last.value.s \notin evaluated

C7_Witness ==
    /\ last.op = "construct"
    /\ last.value = S_42
    /\ evaluated = {T_int}
    /\ last.obj.instantiated_value = IntVal(42)

\* C8: no ExperimentConfig with an empty variations list is accepted.
C8_EmptyVariationsRejected ==
    config.exists => config.obj.variations # <<>>

WrapperNames(cfg) == {cfg.variations[i].name : i \in DOMAIN cfg.variations}

\* C9: no ExperimentConfig is accepted whose combinations_to_run names a group
\* that is the name of none of its WrapperConfigs; without combinations_to_run
\* nothing is asked.
C9_UnknownGroupRejected ==
    (config.exists /\ config.obj.combinations_to_run.present)
        => \A k \in DOMAIN config.obj.combinations_to_run.items :
               config.obj.combinations_to_run.items[k][1] \in WrapperNames(config.obj)

\* C10: every evaluator that is a key of an Experiment's aggregated_metrics has
\* an output in one of its results.
C10_MetricsBackedByResults ==
    experiment.exists
        => \A e \in DOMAIN experiment.obj.aggregated_metrics :
               \E i \in DOMAIN experiment.obj.results :
                   \E j \in DOMAIN experiment.obj.results[i].evaluator_outputs :
                       experiment.obj.results[i].evaluator_outputs[j].name = e

====
